---- MODULE Spec2Model ----
(***************************************************************************)
(* Expense tracker (src/main.py): one SQLite table `expenses`, written by  *)
(* add_expense and read by list_expenses and summarize.                    *)
(*                                                                         *)
(* Strings are sequences of byte values, so that SQLite's BINARY collation *)
(* (bytewise comparison, a proper prefix sorts first) is computed and not  *)
(* assumed.  Amounts are integers standing for floats that are exactly     *)
(* representable, on which REAL addition is exact.                         *)
(***************************************************************************)
EXTENDS Integers, Sequences, FiniteSets, TLC

VARIABLES
    tables,   \* the tables of the database file
    rows,     \* the committed rows of expenses
    seq,      \* sqlite_sequence.seq of expenses
    txn,      \* the open write transaction of an add_expense in progress
    last,     \* the call that returned last, with what it returned
    lastAdd,  \* the add_expense that returned an id last
    okAdds    \* how many add_expense calls have returned an id

vars == <<tables, rows, seq, txn, last, lastAdd, okAdds>>

(* ------------------------------ bounds --------------------------------- *)

\* Largest number of committed rows explored.
MaxRows == 3

\* The same, where only the dates of the rows vary.
MaxListRows == 3

(* ------------------------------ values --------------------------------- *)

\* Python strings / SQLite TEXT values as byte sequences.
Empty == <<>>
S1    == <<49>>          \* "1"
S10   == <<49, 48>>      \* "10"
S2    == <<50>>          \* "2"
CatA  == <<97>>          \* "a"
CatB  == <<98>>          \* "b"
TxtX  == <<120>>         \* "x"

\* Python None, and a keyword left out of the call; neither is a byte string.
None    == <<-1>>
Omitted == <<-2>>

NoTxn  == [open |-> FALSE]
NoCall == [op |-> "none"]

(* --------------------------- pure functions ---------------------------- *)

\* TEXT comparison under the BINARY collation: first differing byte decides,
\* otherwise the shorter string is smaller.
RECURSIVE StrLt(_, _)
StrLt(a, b) ==
    IF b = <<>> THEN FALSE
    ELSE IF a = <<>> THEN TRUE
    ELSE IF Head(a) # Head(b) THEN Head(a) < Head(b)
    ELSE StrLt(Tail(a), Tail(b))

StrLe(a, b) == a = b \/ StrLt(a, b)

\* Variant: the upper bound excluded.
Between_HalfOpen(x, lo, hi) == StrLe(lo, x) /\ StrLt(x, hi)

\* x BETWEEN lo AND hi  ==  x >= lo AND x <= hi
Between(x, lo, hi) == StrLe(lo, x) /\ StrLe(x, hi)

\* Truth value of an Optional[str]: None and "" are falsy.
Truthy(x) == x # None /\ x # Empty

\* Variant: the value bound as it came, without `or ""`.
PyOr_Absent(x, d) == x

\* Python `x or d`
PyOr(x, d) == IF Truthy(x) THEN x ELSE d

\* A field of a pydantic model declared `Optional[str] = dflt`.
FieldDefault(x, dflt) == IF x = Omitted THEN dflt ELSE x

\* AddExpenseArgs(**kw)
AddExpenseArgs(date, amount, category, subcategory, note) ==
    [date        |-> date,
     amount      |-> amount,
     category    |-> category,
     subcategory |-> FieldDefault(subcategory, Empty),
     note        |-> FieldDefault(note, Empty)]

\* SummarizeArgs(**kw)
SummarizeArgs(start_date, end_date, category) ==
    [start_date |-> start_date,
     end_date   |-> end_date,
     category   |-> FieldDefault(category, None)]

\* ListExpensesArgs(**kw)
ListExpensesArgs(start_date, end_date) ==
    [start_date |-> start_date, end_date |-> end_date]

\* Variant: subcategory and note bound in each other's place.
InsertRow_Swapped(id, args) ==
    [id          |-> id,
     date        |-> args.date,
     amount      |-> args.amount,
     category    |-> args.category,
     subcategory |-> IF Truthy(args.note) THEN args.note ELSE Empty,
     note        |-> IF Truthy(args.subcategory) THEN args.subcategory ELSE Empty]

\* The parameter tuple bound to the INSERT statement, with the rowid it gets.
InsertRow(id, args) ==
    [id          |-> id,
     date        |-> args.date,
     amount      |-> args.amount,
     category    |-> args.category,
     subcategory |-> PyOr(args.subcategory, Empty),
     note        |-> PyOr(args.note, Empty)]

MaxOf(S) == CHOOSE m \in S : \A x \in S : x <= m

\* Variant: the largest rowid so far handed out again.
NextRowid_Reused(table, sequence) ==
    MaxOf({sequence} \cup {r.id : r \in table})

\* INTEGER PRIMARY KEY AUTOINCREMENT: one more than the largest rowid the
\* table has ever held (sqlite_sequence) or holds now.
NextRowid(table, sequence) ==
    MaxOf({sequence} \cup {r.id : r \in table}) + 1

\* ORDER BY id ASC
RECURSIVE OrderById(_)
OrderById(S) ==
    IF S = {} THEN <<>>
    ELSE LET m == CHOOSE r \in S : \A q \in S : r.id <= q.id
         IN  <<m>> \o OrderById(S \ {m})

\* ORDER BY category ASC, over the group keys
RECURSIVE OrderByCategory(_)
OrderByCategory(K) ==
    IF K = {} THEN <<>>
    ELSE LET m == CHOOSE k \in K : \A j \in K : StrLe(k, j)
         IN  <<m>> \o OrderByCategory(K \ {m})

\* SUM(amount) over a group of rows
RECURSIVE SumAmount(_)
SumAmount(S) ==
    IF S = {} THEN 0
    ELSE LET r == CHOOSE q \in S : TRUE
         IN  r.amount + SumAmount(S \ {r})

\* SELECT ... WHERE date BETWEEN ? AND ? ORDER BY id ASC
list_expenses(table, args) ==
    OrderById({r \in table : Between(r.date, args.start_date, args.end_date)})

\* The WHERE clause summarize builds: the category test is appended only
\* when args.category is truthy.
SummarizeWhere(r, args) ==
    /\ Between(r.date, args.start_date, args.end_date)
    /\ (Truthy(args.category) => r.category = args.category)

\* Variant: COUNT(*) in place of SUM(amount).
summarize_Count(table, args) ==
    LET sel  == {r \in table : SummarizeWhere(r, args)}
        keys == OrderByCategory({r.category : r \in sel})
    IN  [i \in 1..Len(keys) |->
            [category     |-> keys[i],
             total_amount |-> Cardinality({r \in sel : r.category = keys[i]})]]

\* SELECT category, SUM(amount) ... GROUP BY category ORDER BY category ASC
summarize(table, args) ==
    LET sel  == {r \in table : SummarizeWhere(r, args)}
        keys == OrderByCategory({r.category : r \in sel})
    IN  [i \in 1..Len(keys) |->
            [category     |-> keys[i],
             total_amount |-> SumAmount({r \in sel : r.category = keys[i]})]]

\* The table CREATE TABLE IF NOT EXISTS expenses(...) defines.
ExpensesTable ==
    [name    |-> "expenses",
     columns |-> << [name |-> "id",          type |-> "INTEGER", notnull |-> FALSE, dflt |-> "AUTOINCREMENT"],
                    [name |-> "date",        type |-> "TEXT",    notnull |-> TRUE,  dflt |-> "none"],
                    [name |-> "amount",      type |-> "REAL",    notnull |-> TRUE,  dflt |-> "none"],
                    [name |-> "category",    type |-> "TEXT",    notnull |-> TRUE,  dflt |-> "none"],
                    [name |-> "subcategory", type |-> "TEXT",    notnull |-> FALSE, dflt |-> "''"],
                    [name |-> "note",        type |-> "TEXT",    notnull |-> FALSE, dflt |-> "''"] >>]

TableExists == \E t \in tables : t.name = "expenses"

(* ------------------------------- state --------------------------------- *)

\* A database file that does not exist yet; the module has not run init_db.
Init ==
    /\ tables  = {}
    /\ rows    = {}
    /\ seq     = 0
    /\ txn     = NoTxn
    /\ last    = NoCall
    /\ lastAdd = NoCall
    /\ okAdds  = 0

(* ------------------------------ actions -------------------------------- *)
(* Every call opens its own connection, so callers have no identity: any   *)
(* number of them may call while one add_expense is between its INSERT and *)
(* its commit.                                                             *)

\* Variant: DROP TABLE followed by CREATE TABLE.
init_db_Recreate ==
    /\ tables' = {ExpensesTable}
    /\ rows'   = {}
    /\ seq'    = 0
    /\ last'   = [op |-> "init", status |-> "ok"]
    /\ UNCHANGED <<txn, lastAdd, okAdds>>

\* init_db(): CREATE TABLE IF NOT EXISTS, one statement in autocommit.
init_db ==
    /\ tables' = IF TableExists THEN tables ELSE tables \cup {ExpensesTable}
    /\ last' = [op |-> "init", status |-> "ok"]
    /\ UNCHANGED <<rows, seq, txn, lastAdd, okAdds>>

\* add_expense, the INSERT: opens the implicit write transaction, which takes
\* the database's single write lock, and inserts the row inside it.
add_expense_execute(limit, kw) ==
    /\ TableExists
    /\ txn = NoTxn
    /\ Cardinality(rows) < limit
    /\ LET args == AddExpenseArgs(kw.date, kw.amount, kw.category,
                                  kw.subcategory, kw.note)
           id   == NextRowid(rows, seq)
       IN  txn' = [open |-> TRUE, kw |-> kw, row |-> InsertRow(id, args),
                   lastrowid |-> id]
    /\ UNCHANGED <<tables, rows, seq, last, lastAdd, okAdds>>

\* Variant: INSERT OR REPLACE keyed on the date.
add_expense_commit_Replace ==
    /\ txn # NoTxn
    /\ rows' = {r \in rows : r.date # txn.row.date} \cup {txn.row}
    /\ seq'  = txn.row.id
    /\ txn'  = NoTxn
    /\ last' = [op |-> "add", status |-> "ok", args |-> txn.kw,
                result |-> [status |-> "ok", id |-> txn.lastrowid]]
    /\ lastAdd' = last'
    /\ okAdds'  = okAdds + 1
    /\ UNCHANGED tables

\* add_expense, leaving the `with` block normally: the transaction commits
\* and {"status": "ok", "id": cur.lastrowid} is returned.
add_expense_commit ==
    /\ txn # NoTxn
    /\ rows' = rows \cup {txn.row}
    /\ seq'  = txn.row.id
    /\ txn'  = NoTxn
    /\ last' = [op |-> "add", status |-> "ok", args |-> txn.kw,
                result |-> [status |-> "ok", id |-> txn.lastrowid]]
    /\ lastAdd' = last'
    /\ okAdds'  = okAdds + 1
    /\ UNCHANGED tables

\* Variant: the error is raised but the inserted row stays in the table.
add_expense_fail_Kept ==
    /\ txn # NoTxn
    /\ rows' = rows \cup {txn.row}
    /\ txn'  = NoTxn
    /\ last' = [op |-> "add", status |-> "error"]
    /\ UNCHANGED <<tables, seq, lastAdd, okAdds>>

\* add_expense, the commit raising a storage error: the transaction is
\* rolled back and the exception reaches the caller.
add_expense_fail ==
    /\ txn # NoTxn
    /\ txn'  = NoTxn
    /\ last' = [op |-> "add", status |-> "error"]
    /\ UNCHANGED <<tables, rows, seq, lastAdd, okAdds>>

\* add_expense while another connection holds the write lock until the busy
\* timeout expires: the INSERT raises "database is locked".
add_expense_busy ==
    /\ TableExists
    /\ txn # NoTxn
    /\ last' = [op |-> "add", status |-> "error"]
    /\ UNCHANGED <<tables, rows, seq, txn, lastAdd, okAdds>>

\* list_expenses: one SELECT over the committed table.
ListExpenses(kw) ==
    /\ TableExists
    /\ LET args == ListExpensesArgs(kw.start_date, kw.end_date)
       IN  last' = [op |-> "list", status |-> "ok", args |-> args,
                    result |-> list_expenses(rows, args)]
    /\ UNCHANGED <<tables, rows, seq, txn, lastAdd, okAdds>>

\* summarize: one SELECT over the committed table.
Summarize(kw) ==
    /\ TableExists
    /\ LET args == SummarizeArgs(kw.start_date, kw.end_date, kw.category)
       IN  last' = [op |-> "summarize", status |-> "ok", args |-> args,
                    result |-> summarize(rows, args)]
    /\ UNCHANGED <<tables, rows, seq, txn, lastAdd, okAdds>>

(* ------------------------- inputs and behaviours ----------------------- *)

\* Keyword arguments the callers may pass to each tool.
AddKw(D, A, C, S, N) ==
    [date : D, amount : A, category : C, subcategory : S, note : N]

ListKw(D) == [start_date : D, end_date : D]

SummarizeKw(D, C) == [start_date : D, end_date : D, category : C]

Step(limit, adds, lists, sums) ==
    \/ init_db
    \/ \E kw \in adds : add_expense_execute(limit, kw)
    \/ add_expense_commit
    \/ add_expense_fail
    \/ add_expense_busy
    \/ \E kw \in lists : ListExpenses(kw)
    \/ \E kw \in sums : Summarize(kw)

\* Storage: the optional texts vary (left out, None, a text).
StoreDates == {S1, S2}
StoreTexts == {Omitted, None, TxtX}
StoreAdds  == AddKw(StoreDates, {5}, {CatA}, StoreTexts, StoreTexts)

Next ==
    Step(MaxRows, StoreAdds, ListKw(StoreDates),
         SummarizeKw(StoreDates, {CatA, Omitted}))

Spec == Init /\ [][Next]_vars

\* Range listing: only the dates vary.
ListDates == {S1, S10, S2}
ListAdds  == AddKw(ListDates, {5}, {CatA}, {Omitted}, {Omitted})

NextList ==
    Step(MaxListRows, ListAdds, ListKw(ListDates \cup {Empty}),
         SummarizeKw({S1}, {Omitted}))

SpecList == Init /\ [][NextList]_vars

\* Aggregation: dates, amounts and categories vary.
SumDates == {S1, S2}
SumCats  == {Empty, CatA, CatB}
SumAdds  == AddKw(SumDates, {5, 10}, SumCats, {Omitted}, {Omitted})

NextSummarize ==
    Step(MaxRows, SumAdds, ListKw({S1}),
         SummarizeKw(SumDates, {Empty, CatA, Omitted, None}))

SpecSummarize == Init /\ [][NextSummarize]_vars

(* ------------------------------ properties ----------------------------- *)

\* The rows a date range selects, as the specification words it.
InRange(start_date, end_date) ==
    {r \in rows : StrLe(start_date, r.date) /\ StrLe(r.date, end_date)}

Elements(q) == {q[i] : i \in DOMAIN q}

\* The sum of the amounts of a set of rows with distinct ids, id by id.
RECURSIVE AmountUpTo(_, _)
AmountUpTo(S, n) ==
    IF n = 0 THEN 0
    ELSE AmountUpTo(S, n - 1)
         + (IF \E r \in S : r.id = n THEN (CHOOSE r \in S : r.id = n).amount ELSE 0)

Total(S) == AmountUpTo(S, MaxOf({0} \cup {r.id : r \in S}))

\* An optional text as the specification stores it.
Stored(x) == IF x \in {Omitted, None} THEN Empty ELSE x

\* C1: list_expenses returns exactly the rows whose date lies between
\* start_date and end_date, both included, under string comparison; each row
\* once, in strictly ascending id order whatever the dates; and nothing when
\* start_date is greater than end_date.
C1_ListExactRange ==
    last.op = "list" =>
        LET res == last.result
            s   == last.args.start_date
            e   == last.args.end_date
        IN  /\ Elements(res) = InRange(s, e)
            /\ \A i, j \in DOMAIN res : i < j => res[i].id < res[j].id
            /\ (StrLt(e, s) => res = <<>>)

\* A listing of two rows out of three, the later date first, both bounds hit.
C1_Witness ==
    /\ last.op = "list"
    /\ Cardinality(rows) = 3
    /\ Len(last.result) = 2
    /\ StrLt(last.result[2].date, last.result[1].date)
    /\ last.result[1].date = last.args.end_date
    /\ last.result[2].date = last.args.start_date

\* C2: whenever summarize is given a category that is not null, the empty
\* string included, every entry of the result has exactly that category.
C2_CategoryFilterExact ==
    (last.op = "summarize" /\ last.args.category # None) =>
        \A i \in DOMAIN last.result :
            last.result[i].category = last.args.category

\* C3: summarize without a category has one entry per distinct category of
\* the rows in the date range, each total the sum of the amounts of exactly
\* those rows, the entries in strictly ascending category order.
C3_GroupTotals ==
    (last.op = "summarize" /\ last.args.category = None) =>
        LET res == last.result
            sel == InRange(last.args.start_date, last.args.end_date)
        IN  /\ {res[i].category : i \in DOMAIN res} = {r.category : r \in sel}
            /\ \A i, j \in DOMAIN res :
                   i < j => StrLt(res[i].category, res[j].category)
            /\ \A i \in DOMAIN res :
                   res[i].total_amount =
                       Total({r \in sel : r.category = res[i].category})

\* Two groups, one of them of two rows with different amounts.
C3_Witness ==
    /\ last.op = "summarize"
    /\ last.args.category = None
    /\ Len(last.result) = 2
    /\ \E i \in DOMAIN last.result : last.result[i].total_amount = 15
    /\ Cardinality(rows) = 3

\* C4: every category in a summarize result has a stored row in the date
\* range that passes the category filter, and when no row passes, the result
\* is empty.
C4_NoGhostCategories ==
    last.op = "summarize" =>
        LET res  == last.result
            pass == {r \in InRange(last.args.start_date, last.args.end_date) :
                        last.args.category # None => r.category = last.args.category}
        IN  /\ \A i \in DOMAIN res : \E r \in pass : r.category = res[i].category
            /\ (pass = {} => res = <<>>)

\* C5: no stored row has a null subcategory or note; a text left out or
\* passed as null is stored as the empty string, a given text unchanged.
C5_NoNullTexts ==
    /\ \A r \in rows :
          /\ r.subcategory \notin {None, Omitted}
          /\ r.note \notin {None, Omitted}
    /\ lastAdd.op = "add" =>
          \E r \in rows :
              /\ r.id = lastAdd.result.id
              /\ r.subcategory = Stored(lastAdd.args.subcategory)
              /\ r.note = Stored(lastAdd.args.note)

\* A row stored from a null subcategory and a given note.
C5_Witness ==
    /\ lastAdd.op = "add"
    /\ lastAdd.args.subcategory = None
    /\ lastAdd.args.note = TxtX
    /\ \E r \in rows : r.id = lastAdd.result.id /\ r.subcategory = Empty

C6_UniqueIds == \A r, q \in rows : r.id = q.id => r = q

C6_NewIdGreater ==
    okAdds' # okAdds =>
        /\ \A q \in rows : last'.result.id > q.id
        /\ \E r \in rows' \ rows : r.id = last'.result.id

\* C6: no two rows share an id, and the id every add_expense returns is
\* greater than the id of every row stored before, however the calls
\* interleave and fail.
C6_MonotonicIds == [](C6_UniqueIds) /\ [][C6_NewIdGreater]_vars

\* Three ids handed out, the last call having returned the third.
C6_Witness ==
    /\ okAdds = 3
    /\ last.op = "add" /\ last.status = "ok"
    /\ \A r \in rows : r.id <= last.result.id

\* The listing of the one date of the add_expense that returned last.
C7_Case ==
    /\ last.op = "list"
    /\ lastAdd.op = "add"
    /\ last.args.start_date = lastAdd.args.date
    /\ last.args.end_date = lastAdd.args.date

C7_Expected ==
    [id          |-> lastAdd.result.id,
     date        |-> lastAdd.args.date,
     amount      |-> lastAdd.args.amount,
     category    |-> lastAdd.args.category,
     subcategory |-> Stored(lastAdd.args.subcategory),
     note        |-> Stored(lastAdd.args.note)]

\* C7 as stated: create(d, a, c, s, n) followed by listByDateRange(d, d)
\* returns exactly one record, with the fields given and the id returned.
C7_OneRecordOnly == C7_Case => last.result = <<C7_Expected>>

\* C7 as amended: the listing holds exactly the stored rows dated d, each
\* once in ascending id order; exactly one of them has the id create
\* returned, and that record has the fields given, a text left out or null
\* read as the empty string; when no other stored row is dated d, the listing
\* is that one record.
C7_RoundTrip ==
    C7_Case =>
        LET res   == last.result
            id    == lastAdd.result.id
            dated == {r \in rows : r.date = lastAdd.args.date}
        IN  /\ Elements(res) = dated
            /\ \A i, j \in DOMAIN res : i < j => res[i].id < res[j].id
            /\ Cardinality({i \in DOMAIN res : res[i].id = id}) = 1
            /\ \A i \in DOMAIN res : res[i].id = id => res[i] = C7_Expected
            /\ ((\A r \in dated : r.id = id) => res = <<C7_Expected>>)

\* The new row listed after an older row of the same date.
C7_Witness ==
    /\ C7_Case
    /\ Len(last.result) = 2
    /\ last.result[2] = C7_Expected
    /\ lastAdd.args.subcategory = Omitted
    /\ lastAdd.args.note = TxtX

\* C8: init_db, whenever and however often it runs, leaves exactly the one
\* expenses table, unchanged if it was there, and the stored rows untouched.
C8_InitIdempotent ==
    [][last'.op = "init" =>
          /\ tables' = {ExpensesTable}
          /\ (tables # {} => tables' = tables)
          /\ rows' = rows
          /\ seq' = seq]_vars

\* init_db has run over a table with rows, an add_expense being in progress.
C8_Witness ==
    /\ last.op = "init"
    /\ rows # {}
    /\ txn # NoTxn

\* C9: a successful add_expense adds exactly one row and leaves the others as
\* they are, no other step changes the table, and the table has as many rows
\* as add_expense calls have succeeded.
C9_AppendOnly ==
    /\ [](Cardinality(rows) = okAdds)
    /\ [][/\ rows \subseteq rows'
          /\ (okAdds' = okAdds + 1 => Cardinality(rows' \ rows) = 1)
          /\ (okAdds' = okAdds => rows' = rows)
          /\ (last'.op \in {"list", "summarize"} => rows' = rows)]_vars

\* A second row of a date the table already had.
C9_Witness ==
    /\ okAdds = 2
    /\ \E r, q \in rows : r.id # q.id /\ r.date = q.date

C10_FailedAdd ==
    (last'.op = "add" /\ last'.status = "error") =>
        /\ rows' = rows
        /\ seq' = seq

C10_CommittedOnly ==
    /\ last.op = "list" => Elements(last.result) \subseteq rows
    /\ last.op = "summarize" =>
          \A i \in DOMAIN last.result :
              LET grp == {r \in InRange(last.args.start_date, last.args.end_date) :
                             r.category = last.result[i].category}
              IN  grp # {} /\ last.result[i].total_amount = Total(grp)

\* C10: an add_expense that fails leaves the table as it was, and a listing or
\* a summary holds committed rows only, each whole.
C10_AllOrNothing == [](C10_CommittedOnly) /\ [][C10_FailedAdd]_vars

\* An add_expense has failed at its commit; the table still has its rows.
C10_Witness ==
    /\ last.op = "add" /\ last.status = "error"
    /\ txn = NoTxn
    /\ rows # {}
    /\ okAdds = Cardinality(rows)

====
